---- MODULE Spec2Model ----
(***************************************************************************)
(* A model of trustfall-serde-yaml (src/src/lib.rs): the compiler from a   *)
(* KDL node tree to a trustfall IR (construct_edges,                       *)
(* Query::iquery_and_arguments), the YAML adapter (YamlAdapter) and the    *)
(* facade run.                                                             *)
(*                                                                         *)
(* Text is a sequence of atoms: the characters that the code inspects      *)
(* (the double quote, the backslash, "@", "r", "#") are atoms of their     *)
(* own, any other atom stands for a run of ordinary characters.            *)
(***************************************************************************)
EXTENDS Integers, Sequences, FiniteSets, TLC

VARIABLES
    pc,         \* position of run: parse_query, parse_yaml, compile, ...
    raw_query,  \* run's first argument, by what the KDL parser makes of it
    yaml,       \* run's second argument, by what serde_yaml makes of it
    kdl_doc,    \* the parsed KdlDocument
    root,       \* the parsed serde_yaml::Value
    query,      \* the IndexedQuery built by iquery_and_arguments
    contexts,   \* the contexts in flight in the engine (or handed to the adapter)
    eidx,       \* the engine's position in the edges, in eid order
    call,       \* the last adapter call: method, name, input contexts
    outcome,    \* what the last adapter call yielded
    result      \* what run returned

vars == <<pc, raw_query, yaml, kdl_doc, root, query, contexts, eidx, call, outcome, result>>

\* ------------------------------------------------------------ bounds
\* Largest number of nodes of a query tree, over all nesting levels.
MaxNodes == 3
\* Largest length of a YAML sequence handed to the adapter.
MaxSeqLen == 2
\* Largest number of containers of a deployment document.
MaxImages == 3
\* Largest number of adapter calls chained in the adapter specification.
MaxCalls == 2

\* ------------------------------------------------------------ text
DQ == "\""
BS == "\\"

RECURSIVE escape(_)
\* The escaping that the Display of a KDL string applies inside the quotes.
escape(s) ==
    IF s = <<>> THEN <<>>
    ELSE (IF Head(s) = DQ THEN <<BS, DQ>>
          ELSE IF Head(s) = BS THEN <<BS, BS>>
          ELSE <<Head(s)>>) \o escape(Tail(s))

\* KdlValue: the variants of a leaf value.
KdlString(s) == [type |-> "String", s |-> s]
KdlRawString(s) == [type |-> "RawString", s |-> s]
KdlBase10(s) == [type |-> "Base10", s |-> s]
KdlBool(s) == [type |-> "Bool", s |-> s]
KdlNull == [type |-> "Null", s |-> <<"null">>]

\* entry.value().to_string(): the Display of a KdlValue.
to_string(v) ==
    CASE v.type = "String" -> <<DQ>> \o escape(v.s) \o <<DQ>>
      [] v.type = "RawString" ->
            IF \E i \in 1..Len(v.s) : v.s[i] = DQ
            THEN <<"r", "#", DQ>> \o v.s \o <<DQ, "#">>
            ELSE <<"r", DQ>> \o v.s \o <<DQ>>
      [] OTHER -> v.s

\* str::starts_with
starts_with(s, p) == Len(s) >= Len(p) /\ SubSeq(s, 1, Len(p)) = p

\* Option<&str>
NoneStr == [some |-> FALSE, s |-> <<>>]
SomeStr(s) == [some |-> TRUE, s |-> s]

\* str::strip_prefix
strip_prefix(s, p) ==
    IF starts_with(s, p) THEN SomeStr(SubSeq(s, Len(p) + 1, Len(s))) ELSE NoneStr

\* str::strip_suffix
strip_suffix(s, p) ==
    IF Len(s) >= Len(p) /\ SubSeq(s, Len(s) - Len(p) + 1, Len(s)) = p
    THEN SomeStr(SubSeq(s, 1, Len(s) - Len(p)))
    ELSE NoneStr

\* ------------------------------------------------------------ maps
\* BTreeMap::insert: a present key is overwritten.
Insert(m, k, v) == [x \in DOMAIN m \cup {k} |-> IF x = k THEN v ELSE m[x]]

\* Extend as it would be with entry().or_insert(): a present key is kept.
Extend_keep(m, o) == [x \in DOMAIN m \cup DOMAIN o |-> IF x \in DOMAIN m THEN m[x] ELSE o[x]]

\* BTreeMap::extend: the keys of `o` overwrite those of `m`.
Extend(m, o) == [x \in DOMAIN m \cup DOMAIN o |-> IF x \in DOMAIN o THEN o[x] ELSE m[x]]

EmptyMap == <<>>

\* ------------------------------------------------------------ query trees
\* A KdlNode: its name, its entries (arguments and properties, in order) and
\* its optional block of children.
Node(name, entries, has_children, children) ==
    [name |-> name, entries |-> entries, has_children |-> has_children,
     children |-> children]

\* A KdlEntry: an argument (no name) or a property (key=value).
Arg(v) == [has_name |-> FALSE, name |-> "", value |-> v]
Prop(k, v) == [has_name |-> TRUE, name |-> k, value |-> v]

\* ------------------------------------------------------------ the compiler
IRVertex(vid) ==
    [vid |-> vid, type_name |-> "node", coerced_from_type |-> "None", filters |-> <<>>]

\* The output name cut out of the text of the first entry's value.
output_name(v) ==
    LET a == strip_prefix(v, <<DQ, "@">>)
        b == IF a.some THEN strip_suffix(a.s, <<DQ>>) ELSE NoneStr
    IN  IF b.some THEN b.s ELSE v

\* Whether the text of the first entry's value declares an output.
is_output(v) == starts_with(v, <<DQ, "@">>)

\* first_entry as it would be with entries().last().
first_entry_last(entries) == IF entries = <<>> THEN <<>> ELSE <<entries[Len(entries)]>>

\* node.entries().first(): the entries that are looked at.
first_entry(entries) == IF entries = <<>> THEN <<>> ELSE <<entries[1]>>

\* TFOutput as it would be with vid: next_vid, the node's own vertex.
TFOutput_own_vertex(name, parent_vid, next_vid) ==
    [name |-> name, value_type |-> "String", vid |-> next_vid]

\* The TFOutput recorded for a node named `name` under `parent_vid`.
TFOutput(name, parent_vid, next_vid) ==
    [name |-> name, value_type |-> "String", vid |-> parent_vid]

\* IREdge as it would be with from_vid and to_vid exchanged.
IREdge_swapped(eid, parent_vid, next_vid, name) ==
    [eid |-> eid, from_vid |-> next_vid, to_vid |-> parent_vid, edge_name |-> name,
     parameters |-> <<>>, optional |-> FALSE, recursive |-> "None"]

\* The IREdge that leads to a node's vertex.
IREdge(eid, parent_vid, next_vid, name) ==
    [eid |-> eid, from_vid |-> parent_vid, to_vid |-> next_vid, edge_name |-> name,
     parameters |-> <<>>, optional |-> FALSE, recursive |-> "None"]

\* The outputs after a node's entries were looked at.
node_outputs(outputs, node, parent_vid, next_vid) ==
    LET fe == first_entry(node.entries)
    IN  IF fe = <<>> THEN outputs
        ELSE LET v == to_string(fe[1].value)
             IN  IF is_output(v)
                 THEN Insert(outputs, output_name(v),
                             TFOutput(node.name, parent_vid, next_vid))
                 ELSE outputs

\* children_parent as it would be with parent_vid handed down unchanged.
children_parent_flat(parent_vid, next_vid) == parent_vid

\* The vertex handed to the recursive call as the children's parent.
children_parent(parent_vid, next_vid) == next_vid

\* What construct_edges holds: its three maps and the two id makers, each by
\* the next id it hands out.
Acc(vertices, edges, outputs, vid_maker, eid_maker) ==
    [vertices |-> vertices, edges |-> edges, outputs |-> outputs,
     vid_maker |-> vid_maker, eid_maker |-> eid_maker]

\* makers_after as it would be with the makers handed to the recursion by value.
makers_after_copied(before, sub) ==
    [vid_maker |-> before.vid_maker, eid_maker |-> before.eid_maker]

\* The makers after a node's children were compiled: both are &mut, so the
\* ids the children took are gone for the node's later siblings.
makers_after(before, sub) == [vid_maker |-> sub.vid_maker, eid_maker |-> sub.eid_maker]

RECURSIVE construct_edges(_, _, _, _)
RECURSIVE construct_nodes(_, _, _, _)

\* The body of `for node in doc.nodes()` for the nodes from position i on.
construct_nodes(doc, i, parent_vid, acc) ==
    IF i > Len(doc) THEN acc
    ELSE
        LET node == doc[i]
            next_vid == acc.vid_maker
            vertices1 == Insert(acc.vertices, next_vid, IRVertex(next_vid))
            outputs1 == node_outputs(acc.outputs, node, parent_vid, next_vid)
            parent_to_needle == acc.eid_maker
            edges1 == Insert(acc.edges, parent_to_needle,
                             IREdge(parent_to_needle, parent_vid, next_vid, node.name))
            own == Acc(vertices1, edges1, outputs1, acc.vid_maker + 1, acc.eid_maker + 1)
        IN  IF node.has_children
            THEN LET sub == construct_edges(node.children,
                                            children_parent(parent_vid, next_vid),
                                            own.vid_maker, own.eid_maker)
                     mk == makers_after(own, sub)
                 IN  construct_nodes(doc, i + 1, parent_vid,
                        Acc(Extend(vertices1, sub.vertices), Extend(edges1, sub.edges),
                            Extend(outputs1, sub.outputs), mk.vid_maker, mk.eid_maker))
            ELSE construct_nodes(doc, i + 1, parent_vid, own)

construct_edges(doc, parent_vid, vid_maker, eid_maker) ==
    construct_nodes(doc, 1, parent_vid,
                    Acc(EmptyMap, EmptyMap, EmptyMap, vid_maker, eid_maker))

\* The ContextField of the root component for one output.
ContextField(output) ==
    [vertex_id |-> output.vid, field_name |-> output.name, field_type |-> output.value_type]

\* The first id of vid_maker and of eid_maker.
FirstId == 1

\* Query::iquery_and_arguments: the IndexedQuery (the arguments are empty).
iquery_and_arguments(doc) ==
    LET starting_vid == FirstId
        vertices0 == Insert(EmptyMap, starting_vid, IRVertex(starting_vid))
        c == construct_edges(doc, starting_vid, FirstId + 1, FirstId)
    IN  [root |-> starting_vid,
         root_name |-> "Document",
         vertices |-> Extend(vertices0, c.vertices),
         edges |-> Extend(EmptyMap, c.edges),
         component_outputs |-> [k \in DOMAIN c.outputs |-> ContextField(c.outputs[k])],
         outputs |-> c.outputs]

NoQuery ==
    [root |-> 0, root_name |-> "", vertices |-> EmptyMap, edges |-> EmptyMap,
     component_outputs |-> EmptyMap, outputs |-> EmptyMap]

\* ------------------------------------------------------------ documents
\* serde_yaml::Value: the seven kinds.
VNull == [kind |-> "null"]
VBool(b) == [kind |-> "bool", b |-> b]
VNumber(n) == [kind |-> "number", n |-> n]
VString(s) == [kind |-> "string", str |-> s]
VSequence(items) == [kind |-> "sequence", items |-> items]
\* A mapping keeps its pairs <<key, value>> in insertion order; keys are Values.
VMapping(pairs) == [kind |-> "mapping", pairs |-> pairs]
VTagged(tag, value) == [kind |-> "tagged", tag |-> tag, value |-> value]

\* Option<&Value>
NoneValue == [some |-> FALSE, v |-> VNull]
SomeValue(v) == [some |-> TRUE, v |-> v]

RECURSIVE untag_ref(_)
\* serde_yaml looks through tags in get, as_str, is_sequence and as_sequence.
untag_ref(v) == IF v.kind = "tagged" THEN untag_ref(v.value) ELSE v

\* Value::get with a string index: the value stored under that key of a mapping.
get(v, index) ==
    LET u == untag_ref(v)
    IN  IF u.kind = "mapping" /\ \E i \in 1..Len(u.pairs) : u.pairs[i][1] = VString(index)
        THEN SomeValue(u.pairs[CHOOSE i \in 1..Len(u.pairs) : u.pairs[i][1] = VString(index)][2])
        ELSE NoneValue

\* Value::as_str
as_str(v) ==
    LET u == untag_ref(v)
    IN  IF u.kind = "string" THEN SomeStr(u.str) ELSE NoneStr

\* Value::is_sequence
is_sequence(v) == untag_ref(v).kind = "sequence"

\* Value::as_sequence().unwrap()
as_sequence(v) == untag_ref(v).items

\* Vertex::from(&Value): a clone of the value behind an Arc.
VertexFrom(value) == value

\* <Vertex as Typename>::typename
typename(v) == v.kind

\* ------------------------------------------------------------ the adapter
\* A DataContext of the engine: the active vertex, the vertices bound so far
\* by vid, and the output values computed so far by label.
Context(active, vertices, values) ==
    [active |-> active, vertices |-> vertices, values |-> values]

\* YamlAdapter::resolve_starting_vertices
resolve_starting_vertices(r, edge_name) == <<r>>

\* property_of as it would be with unwrap_or_default() on the string.
property_of_lenient(ctx, property_name) ==
    LET found == get(ctx.active, property_name)
        str == IF found.some THEN as_str(found.v) ELSE NoneStr
    IN  IF found.some THEN <<[ctx |-> ctx, value |-> IF str.some THEN str.s ELSE ""]>>
        ELSE <<>>

\* The closure of resolve_property for one context: Some((ctx, value)) or None,
\* as a sequence of at most one element.
property_of(ctx, property_name) ==
    LET node == ctx.active
        found == get(node, property_name)
        str == IF found.some THEN as_str(found.v) ELSE NoneStr
    IN  IF str.some THEN <<[ctx |-> ctx, value |-> str.s]>> ELSE <<>>

RECURSIVE resolve_property(_, _, _)
\* YamlAdapter::resolve_property: contexts.filter_map(closure)
resolve_property(ctxs, type_name, property_name) ==
    IF ctxs = <<>> THEN <<>>
    ELSE property_of(Head(ctxs), property_name)
         \o resolve_property(Tail(ctxs), type_name, property_name)

\* wildcard_children as it would be with the elements taken from the back.
wildcard_children_reversed(active) ==
    [i \in 1..Len(as_sequence(active)) |->
        VertexFrom(as_sequence(active)[Len(as_sequence(active)) + 1 - i])]

\* The children of the wildcard branch: one vertex per element, in order.
wildcard_children(active) ==
    [i \in 1..Len(as_sequence(active)) |-> VertexFrom(as_sequence(active)[i])]

\* neighbors_miss as it would be with Some((context, empty iterator)).
neighbors_miss_empty(ctx) == <<[ctx |-> ctx, neighbors |-> <<>>]>>

\* What the closure of resolve_neighbors returns when nothing is found.
neighbors_miss(ctx) == <<>>

\* The closure of resolve_neighbors for one context.
neighbors_of(ctx, edge_name) ==
    LET active == ctx.active
    IN  IF edge_name = "*" /\ is_sequence(active)
        THEN <<[ctx |-> ctx, neighbors |-> wildcard_children(active)]>>
        ELSE IF get(active, edge_name).some
        THEN <<[ctx |-> ctx, neighbors |-> <<VertexFrom(get(active, edge_name).v)>>]>>
        ELSE neighbors_miss(ctx)

RECURSIVE resolve_neighbors(_, _, _)
\* YamlAdapter::resolve_neighbors: contexts.filter_map(closure)
resolve_neighbors(ctxs, type_name, edge_name) ==
    IF ctxs = <<>> THEN <<>>
    ELSE neighbors_of(Head(ctxs), edge_name)
         \o resolve_neighbors(Tail(ctxs), type_name, edge_name)

\* ------------------------------------------------------------ the engine
\* trustfall_core's interpret_ir, as far as run depends on it: every edge is
\* expanded in eid order from the vertex bound to its from_vid, a context
\* without neighbours is dropped (no edge is optional), and every output is
\* read with resolve_property from the vertex bound to its vertex_id.

\* The contexts with the vertex bound to `vid` made active.
activate(ctxs, vid) ==
    [i \in 1..Len(ctxs) |-> [ctxs[i] EXCEPT !.active = ctxs[i].vertices[vid]]]

RECURSIVE expand_neighbors(_, _)
\* One context per neighbour, the neighbour bound to `to_vid` and active.
expand_neighbors(out, to_vid) ==
    IF out = <<>> THEN <<>>
    ELSE LET o == Head(out)
         IN  [i \in 1..Len(o.neighbors) |->
                 Context(o.neighbors[i], Insert(o.ctx.vertices, to_vid, o.neighbors[i]),
                         o.ctx.values)]
             \o expand_neighbors(Tail(out), to_vid)

RECURSIVE compute_outputs(_, _, _)
\* The contexts with every output of `labels` read into their values.
compute_outputs(ctxs, q, labels) ==
    IF labels = {} THEN ctxs
    ELSE LET l == CHOOSE x \in labels : TRUE
             f == q.component_outputs[l]
             out == resolve_property(activate(ctxs, f.vertex_id), "node", f.field_name)
         IN  compute_outputs(
                [i \in 1..Len(out) |->
                    [out[i].ctx EXCEPT !.values = Insert(@, l, out[i].value)]],
                q, labels \ {l})

\* The rows that run collects: per context, label -> value.
rows_of(ctxs) == [i \in 1..Len(ctxs) |-> ctxs[i].values]

\* The contexts the engine starts from.
starting_contexts(r, q) ==
    LET vs == resolve_starting_vertices(r, q.root_name)
    IN  [i \in 1..Len(vs) |-> Context(vs[i], Insert(EmptyMap, q.root, vs[i]), EmptyMap)]

\* ------------------------------------------------------------ inputs
\* All sequences over S of length at most n.
RECURSIVE SeqUpTo(_, _)
SeqUpTo(S, n) ==
    IF n = 0 THEN {<<>>}
    ELSE LET shorter == SeqUpTo(S, n - 1)
         IN  shorter \cup {Append(q, x) : q \in {r \in shorter : Len(r) = n - 1}, x \in S}

\* Leaf values of query nodes.
AtX == KdlString(<<"@", "x">>)
AtY == KdlString(<<"@", "y">>)
PlainX == KdlString(<<"x">>)
RawAtX == KdlRawString(<<"@", "x">>)
AtQuoted == KdlString(<<"@", "x", DQ, "y">>)

\* The query nodes that the compiler is run on, less their children: name,
\* entries, and whether a node without children is written with an empty block.
NodeHeads ==
    { [name |-> "a", entries |-> <<>>, block |-> TRUE],
      [name |-> "*", entries |-> <<>>, block |-> FALSE],
      [name |-> "a", entries |-> <<Arg(AtX)>>, block |-> FALSE],
      [name |-> "b", entries |-> <<Arg(AtX)>>, block |-> FALSE],
      [name |-> "b", entries |-> <<Prop("k", AtY)>>, block |-> FALSE],
      [name |-> "a", entries |-> <<Arg(PlainX), Arg(AtX)>>, block |-> FALSE],
      [name |-> "b", entries |-> <<Arg(RawAtX)>>, block |-> FALSE],
      [name |-> "a", entries |-> <<Arg(AtQuoted), Arg(KdlNull)>>, block |-> FALSE] }

\* A tree shape is given by the walk's parent positions: parents[k] is the
\* position of the parent of the k-th node of the depth-first walk, 0 for a
\* top-level node. The parent of node k is node k-1, one of its ancestors, or none.
RECURSIVE AncestorsOrSelf(_, _)
AncestorsOrSelf(parents, k) ==
    IF k = 0 THEN {0}
    ELSE {k} \cup (IF parents[k] < k THEN AncestorsOrSelf(parents, parents[k]) ELSE {})

IsWalk(parents) ==
    \A k \in 1..Len(parents) : parents[k] \in AncestorsOrSelf(parents, k - 1)

RECURSIVE KidsOf(_, _, _)
\* The positions of the children of node k (of the top level for k = 0), from j on.
KidsOf(parents, k, j) ==
    IF j > Len(parents) THEN <<>>
    ELSE (IF parents[j] = k THEN <<j>> ELSE <<>>) \o KidsOf(parents, k, j + 1)

RECURSIVE NodesAt(_, _, _)
\* The nodes at the positions ks, each with its children.
NodesAt(parents, heads, ks) ==
    IF ks = <<>> THEN <<>>
    ELSE LET k == Head(ks)
             kids == KidsOf(parents, k, k + 1)
         IN  <<Node(heads[k].name, heads[k].entries,
                    IF kids = <<>> THEN heads[k].block ELSE TRUE,
                    NodesAt(parents, heads, kids))>>
             \o NodesAt(parents, heads, Tail(ks))

\* The document of the given shape and heads.
BuildDoc(parents, heads) == NodesAt(parents, heads, KidsOf(parents, 0, 1))

\* A text that the parser accepts, by the value it parses to; one that it rejects.
Parsed(v) == [ok |-> TRUE, v |-> v]
Malformed == [ok |-> FALSE, v |-> <<>>]

NoResult == [returned |-> FALSE, rows |-> <<>>]
NoCall == [method |-> "none", name |-> "", input |-> <<>>]

\* ------------------------------------------------------------ run
\* run_steps as they would be with the query compiled before the document is parsed.
run_steps_compile_first == <<"parse_query", "compile", "parse_yaml", "interpret">>

\* The steps of run up to the call of the engine, in the order of the code.
run_steps == <<"parse_query", "parse_yaml", "compile", "interpret">>

\* The step that follows step s.
After(s) ==
    LET i == CHOOSE j \in 1..Len(run_steps) : run_steps[j] = s
    IN  IF i < Len(run_steps) THEN run_steps[i + 1] ELSE "expand"

\* kdl::KdlDocument::from_str(raw_query).unwrap()
ParseQuery ==
    /\ pc = "parse_query"
    /\ IF raw_query.ok
       THEN /\ kdl_doc' = raw_query.v
            /\ pc' = After("parse_query")
       ELSE /\ pc' = "panicked"
            /\ UNCHANGED kdl_doc
    /\ UNCHANGED <<raw_query, yaml, root, query, contexts, eidx, call, outcome, result>>

\* serde_yaml::from_str(yaml).unwrap()
ParseYaml ==
    /\ pc = "parse_yaml"
    /\ IF yaml.ok
       THEN /\ root' = yaml.v
            /\ pc' = After("parse_yaml")
       ELSE /\ pc' = "panicked"
            /\ UNCHANGED root
    /\ UNCHANGED <<raw_query, yaml, kdl_doc, query, contexts, eidx, call, outcome, result>>

\* Query(kdl_doc).iquery_and_arguments()
Compile ==
    /\ pc = "compile"
    /\ query' = iquery_and_arguments(kdl_doc)
    /\ pc' = After("compile")
    /\ UNCHANGED <<raw_query, yaml, kdl_doc, root, contexts, eidx, call, outcome, result>>

\* The adapter is built over root and the engine resolves the starting vertices.
Interpret ==
    /\ pc = "interpret"
    /\ contexts' = starting_contexts(root, query)
    /\ eidx' = 1
    /\ pc' = After("interpret")
    /\ UNCHANGED <<raw_query, yaml, kdl_doc, root, query, call, outcome, result>>

\* The eids of a query in the order of the BTreeMap.
RECURSIVE SortedIds(_)
SortedIds(S) ==
    IF S = {} THEN <<>>
    ELSE LET m == CHOOSE x \in S : \A y \in S : x <= y
         IN  <<m>> \o SortedIds(S \ {m})

\* The engine expands the next edge with resolve_neighbors.
ExpandEdge ==
    /\ pc = "expand"
    /\ eidx <= Cardinality(DOMAIN query.edges)
    /\ LET e == query.edges[SortedIds(DOMAIN query.edges)[eidx]]
           input == activate(contexts, e.from_vid)
           out == resolve_neighbors(input, "node", e.edge_name)
       IN  /\ call' = [method |-> "resolve_neighbors", name |-> e.edge_name, input |-> input]
           /\ outcome' = out
           /\ contexts' = expand_neighbors(out, e.to_vid)
    /\ eidx' = eidx + 1
    /\ UNCHANGED <<pc, raw_query, yaml, kdl_doc, root, query, result>>

\* The engine reads the outputs with resolve_property; run collects the rows.
CollectRows ==
    /\ pc = "expand"
    /\ eidx > Cardinality(DOMAIN query.edges)
    /\ LET done == compute_outputs(contexts, query, DOMAIN query.component_outputs)
       IN  /\ contexts' = done
           /\ result' = [returned |-> TRUE, rows |-> rows_of(done)]
    /\ pc' = "done"
    /\ UNCHANGED <<raw_query, yaml, kdl_doc, root, query, eidx, call, outcome>>

\* ------------------------------------------------------------ the test's inputs
Leaf(name, entries) == Node(name, entries, FALSE, <<>>)
Block(name, children) == Node(name, <<>>, TRUE, children)

NameNode == Block("metadata", <<Leaf("name", <<Arg(KdlString(<<"@", "name">>))>>)>>)
RoleNode ==
    Block("metadata",
          <<Block("annotations",
                  <<Leaf("kube2iam/role", <<Arg(KdlString(<<"@", "role">>))>>)>>)>>)
ImageNode ==
    Block("spec",
          <<Block("containers",
                  <<Block("*", <<Leaf("image", <<Arg(KdlString(<<"@", "image">>))>>)>>)>>)>>)

\* The query of tests::it_works.
DeploymentQuery ==
    << Leaf("kind", <<Arg(KdlString(<<"Deployment">>))>>),
       NameNode,
       Block("spec", <<Block("template", <<RoleNode, ImageNode>>)>>) >>

\* The same without the role, and with the image alone.
NameImageQuery == << NameNode, Block("spec", <<Block("template", <<ImageNode>>)>>) >>
ImageOnlyQuery == << Block("spec", <<Block("template", <<ImageNode>>)>>) >>

WildcardQueries == {DeploymentQuery, NameImageQuery, ImageOnlyQuery}

Str(k, s) == <<VString(k), VString(s)>>

ImageStrings == {"clients-api:v1.44.19", "nginx-sidecar:v1.1.11"}

\* A container that holds an image string, with or without further keys.
ImageContainers ==
    {VMapping(<<Str("image", i)>>) : i \in ImageStrings}
    \cup {VMapping(<<Str("image", i), Str("name", "proxy")>>) : i \in ImageStrings}

\* Containers without an image string.
OtherContainers ==
    { VMapping(<<Str("name", "proxy")>>),
      VMapping(<<<<VString("image"), VNumber(7)>>>>) }

ServerNames == {"other-server", "srv2"}
RoleString == "some-fancy-ARN-that-does-not-matter"

\* The document of tests::it_works, for a name and a list of containers.
DeploymentDoc(name, containers) ==
    VMapping(<<
        Str("apiVersion", "apps/v1"),
        Str("kind", "Deployment"),
        <<VString("metadata"), VMapping(<<Str("name", name), Str("foo", "bar")>>)>>,
        <<VString("spec"),
          VMapping(<< <<VString("template"),
             VMapping(<<
               <<VString("metadata"),
                 VMapping(<< <<VString("annotations"),
                               VMapping(<<Str("kube2iam/role", RoleString)>>)>> >>)>>,
               <<VString("spec"),
                 VMapping(<< <<VString("containers"), VSequence(containers)>> >>)>>
             >>)>> >>)>>
    >>)

\* The lists of containers that hold an image string each.
ImageLists == SeqUpTo(ImageContainers, MaxImages)

\* Lists in which one container holds no image string.
BrokenLists ==
    {<<c>> \o q : c \in OtherContainers, q \in SeqUpTo(ImageContainers, 1)}
    \cup {q \o <<c>> : c \in OtherContainers, q \in SeqUpTo(ImageContainers, 1)}

RunQueries == {Malformed} \cup {Parsed(q) : q \in WildcardQueries}

RunDocs ==
    {Malformed}
    \cup {Parsed(DeploymentDoc(n, cs)) : n \in ServerNames, cs \in ImageLists \cup BrokenLists}

\* ------------------------------------------------------------ adapter inputs
TagT == "!t"

LeafValues ==
    { VNull, VBool(TRUE), VNumber(1), VString("s"), VString("t"),
      VTagged(TagT, VString("s")), VTagged(TagT, VNumber(1)) }

SmallLeaves == {VString("s"), VString("t"), VNumber(1), VTagged(TagT, VString("s"))}

Keys == {VString("k"), VString("*"), VNumber(1)}

\* Mappings of one or two keys over V.
MappingsOver(V) ==
    {VMapping(<<>>)}
    \cup {VMapping(<< <<k, v>> >>) : k \in Keys, v \in V}
    \cup {VMapping(<< <<VString("k"), v>>, <<VString("*"), w>> >>) : v \in V, w \in V}

SequencesOver(V) == {VSequence(q) : q \in SeqUpTo(V, MaxSeqLen)}

MidValues ==
    LeafValues \cup SequencesOver(SmallLeaves) \cup MappingsOver(SmallLeaves)

\* The values that nest below the roots.
NestedValues ==
    { VString("s"),
      VMapping(<<Str("k", "s")>>),
      VMapping(<< <<VString("k"), VNumber(1)>> >>),
      VMapping(<< <<VString("k"), VTagged(TagT, VString("t"))>> >>),
      VTagged(TagT, VMapping(<<Str("k", "t")>>)),
      VSequence(<<VString("s"), VString("t")>>),
      VTagged(TagT, VSequence(<<VString("t"), VString("s")>>)) }

AdapterRoots ==
    MidValues
    \cup {VTagged(TagT, v) : v \in SequencesOver(SmallLeaves) \cup MappingsOver({VString("s"), VNumber(1)})}
    \cup SequencesOver(NestedValues)
    \cup {VMapping(<< <<k, v>> >>) : k \in {VString("k"), VString("*")}, v \in NestedValues}

EdgeNames == {"k", "*", "j"}

\* ------------------------------------------------------------ adapter calls
\* The engine hands the contexts in flight to resolve_neighbors and goes on
\* with one context per neighbour.
CallResolveNeighbors ==
    /\ pc = "adapter"
    /\ eidx < MaxCalls
    /\ \E edge_name \in EdgeNames :
         LET out == resolve_neighbors(contexts, "node", edge_name)
         IN  /\ call' = [method |-> "resolve_neighbors", name |-> edge_name, input |-> contexts]
             /\ outcome' = out
             /\ contexts' = expand_neighbors(out, eidx + 2)
    /\ eidx' = eidx + 1
    /\ UNCHANGED <<pc, raw_query, yaml, kdl_doc, root, query, result>>

\* The engine hands the contexts in flight to resolve_property.
CallResolveProperty ==
    /\ pc = "adapter"
    /\ eidx < MaxCalls
    /\ \E property_name \in EdgeNames :
         /\ call' = [method |-> "resolve_property", name |-> property_name, input |-> contexts]
         /\ outcome' = resolve_property(contexts, "node", property_name)
    /\ eidx' = eidx + 1
    /\ UNCHANGED <<pc, raw_query, yaml, kdl_doc, root, query, contexts, result>>

\* ------------------------------------------------------------ specifications
\* run on a query text and a document text.
Init ==
    /\ pc = run_steps[1]
    /\ raw_query \in RunQueries
    /\ yaml \in RunDocs
    /\ kdl_doc = <<>>
    /\ root = VNull
    /\ query = NoQuery
    /\ contexts = <<>>
    /\ eidx = 0
    /\ call = NoCall
    /\ outcome = <<>>
    /\ result = NoResult

Next == ParseQuery \/ ParseYaml \/ Compile \/ Interpret \/ ExpandEdge \/ CollectRows

Spec == Init /\ [][Next]_vars

\* The compiler on every query tree of at most MaxNodes nodes.
InitCompile ==
    /\ pc = "compile"
    /\ \E n \in 0..MaxNodes :
          \E parents \in [1..n -> 0..MaxNodes] :
             /\ IsWalk(parents)
             /\ \E heads \in [1..n -> NodeHeads] : kdl_doc = BuildDoc(parents, heads)
    /\ raw_query = Parsed(kdl_doc)
    /\ yaml = Parsed(VNull)
    /\ root = VNull
    /\ query = NoQuery
    /\ contexts = <<>>
    /\ eidx = 0
    /\ call = NoCall
    /\ outcome = <<>>
    /\ result = NoResult

NextCompile == Compile

SpecCompile == InitCompile /\ [][NextCompile]_vars

\* The adapter under an engine that walks a document by any edge names.
InitAdapter ==
    /\ pc = "adapter"
    /\ root \in AdapterRoots
    /\ yaml = Parsed(root)
    /\ raw_query = Parsed(<<>>)
    /\ kdl_doc = <<>>
    /\ query = NoQuery
    /\ contexts = starting_contexts(root, [root_name |-> "Document", root |-> FirstId])
    /\ eidx = 0
    /\ call = NoCall
    /\ outcome = <<>>
    /\ result = NoResult

NextAdapter == CallResolveNeighbors \/ CallResolveProperty

SpecAdapter == InitAdapter /\ [][NextAdapter]_vars

\* ------------------------------------------------------------ the compiler's claims
RECURSIVE CountNodes(_)
\* The number of nodes of a document, over all nesting levels.
CountNodes(doc) ==
    IF doc = <<>> THEN 0
    ELSE 1 + (IF Head(doc).has_children THEN CountNodes(Head(doc).children) ELSE 0)
           + CountNodes(Tail(doc))

RECURSIVE Walk(_, _, _)
\* The depth-first, sibling-ordered walk of a document: per node its position
\* in the walk is its index, `parent` the position of its parent (0: none).
Walk(doc, parent, before) ==
    IF doc = <<>> THEN <<>>
    ELSE LET n == Head(doc)
             me == before + 1
             sub == IF n.has_children THEN Walk(n.children, me, me) ELSE <<>>
         IN  <<[node |-> n, parent |-> parent]>> \o sub
             \o Walk(Tail(doc), parent, me + Len(sub))

DocWalk == Walk(kdl_doc, 0, 0)

\* The compiler has run.
Compiled == pc # "compile"

\* A node whose first leaf value is a quoted string that begins with the sigil.
Declares(n) ==
    /\ n.entries # <<>>
    /\ n.entries[1].value.type = "String"
    /\ n.entries[1].value.s # <<>>
    /\ n.entries[1].value.s[1] = "@"

\* The text that follows the sigil, up to the closing quote.
LabelOf(n) ==
    LET t == to_string(n.entries[1].value)
    IN  SubSeq(t, 3, Len(t) - 1)

\* The positions of the walk that declare label l.
Declaring(l) == {k \in 1..Len(DocWalk) : Declares(DocWalk[k].node) /\ LabelOf(DocWalk[k].node) = l}

DeclaredLabels == {LabelOf(DocWalk[k].node) : k \in {j \in 1..Len(DocWalk) : Declares(DocWalk[j].node)}}

\* C1: a tree of N nodes compiles to N+1 vertices with the ids 1..N+1 and to N
\* edges with the ids 1..N, every record filed under its own id.
C1_IdsContiguous ==
    Compiled =>
        LET N == CountNodes(kdl_doc)
        IN  /\ DOMAIN query.vertices = 1..(N + 1)
            /\ DOMAIN query.edges = 1..N
            /\ Cardinality(DOMAIN query.vertices) = N + 1
            /\ Cardinality(DOMAIN query.edges) = N
            /\ \A v \in DOMAIN query.vertices : query.vertices[v].vid = v
            /\ \A e \in DOMAIN query.edges : query.edges[e].eid = e

\* A tree of MaxNodes nodes with a nested node that is followed by a sibling
\* of its parent has been compiled.
C1_Witness ==
    /\ Compiled
    /\ CountNodes(kdl_doc) = MaxNodes
    /\ Len(kdl_doc) >= 2
    /\ kdl_doc[1].has_children
    /\ kdl_doc[1].children # <<>>

\* C8: the root has id 1 and no incoming edge, every other vertex has exactly
\* one incoming edge, from the vertex of its parent node, and the node at
\* position k of the walk has vertex k+1 and edge k, named after the node.
C8_TreeShape ==
    Compiled =>
        /\ query.root = 1
        /\ 1 \in DOMAIN query.vertices
        /\ \A e \in DOMAIN query.edges : query.edges[e].to_vid # 1
        /\ \A v \in DOMAIN query.vertices \ {1} :
              Cardinality({e \in DOMAIN query.edges : query.edges[e].to_vid = v}) = 1
        /\ \A k \in 1..Len(DocWalk) :
              /\ k \in DOMAIN query.edges
              /\ (k + 1) \in DOMAIN query.vertices
              /\ query.edges[k].to_vid = k + 1
              /\ query.edges[k].from_vid = DocWalk[k].parent + 1
              /\ query.edges[k].edge_name = DocWalk[k].node.name

\* A tree has been compiled in which a nested node is followed in the walk by
\* a top-level node.
C8_Witness ==
    /\ Compiled
    /\ \E k \in 1..(Len(DocWalk) - 1) :
          /\ DocWalk[k].parent >= 1
          /\ DocWalk[k + 1].parent = 0
          /\ query.edges[k + 1].from_vid = 1

\* C3: the binding recorded for a node that declares an output sits on the
\* vertex of the node's parent (the root for a top-level node), never on the
\* node's own vertex, names the node as its field and is keyed by the text
\* after the sigil; every binding of the IR is such a binding.
C3_BindingOnParent ==
    Compiled =>
        /\ \A k \in 1..Len(DocWalk) :
              Declares(DocWalk[k].node) =>
                 LET rec == node_outputs(EmptyMap, DocWalk[k].node, DocWalk[k].parent + 1, k + 1)
                     l == LabelOf(DocWalk[k].node)
                 IN  /\ DOMAIN rec = {l}
                     /\ rec[l].vid = DocWalk[k].parent + 1
                     /\ rec[l].vid # k + 1
                     /\ rec[l].name = DocWalk[k].node.name
                     /\ l \in DOMAIN query.outputs
        /\ \A l \in DOMAIN query.outputs :
              /\ \E k \in Declaring(l) :
                    /\ query.outputs[l].vid = DocWalk[k].parent + 1
                    /\ query.outputs[l].vid # k + 1
                    /\ query.outputs[l].name = DocWalk[k].node.name
              /\ query.component_outputs[l].vertex_id = query.outputs[l].vid
              /\ query.component_outputs[l].field_name = query.outputs[l].name

\* A nested node that declares an output has been compiled, and its binding
\* sits on a vertex other than the root.
C3_Witness ==
    /\ Compiled
    /\ \E k \in 1..Len(DocWalk) :
          /\ Declares(DocWalk[k].node)
          /\ DocWalk[k].parent >= 1
          /\ query.outputs[LabelOf(DocWalk[k].node)].vid = DocWalk[k].parent + 1

\* C9: the labels bound are exactly those of the nodes whose first leaf value
\* is a quoted string that begins with the sigil, each binding stems from such
\* a node, no vertex has a filter, and every node, declaring or not, has its
\* vertex and its edge.
C9_BindingIffFirstSigil ==
    Compiled =>
        /\ DOMAIN query.outputs = DeclaredLabels
        /\ \A l \in DOMAIN query.outputs :
              \E k \in Declaring(l) : query.outputs[l].name = DocWalk[k].node.name
        /\ \A v \in DOMAIN query.vertices : query.vertices[v].filters = <<>>
        /\ \A k \in 1..Len(DocWalk) :
              /\ (k + 1) \in DOMAIN query.vertices
              /\ query.vertices[k + 1] = IRVertex(k + 1)
              /\ k \in DOMAIN query.edges
              /\ query.edges[k].to_vid = k + 1

\* A tree has been compiled that holds a node without leaf value, a node
\* whose sigil comes second, and nothing that declares an output.
C9_Witness ==
    /\ Compiled
    /\ \E k \in 1..Len(DocWalk) : DocWalk[k].node.entries = <<>>
    /\ \E k \in 1..Len(DocWalk) :
          /\ Len(DocWalk[k].node.entries) = 2
          /\ ~Declares(DocWalk[k].node)
          /\ DocWalk[k].node.entries[2].value = AtX
    /\ query.outputs = EmptyMap
    /\ Cardinality(DOMAIN query.edges) = Len(DocWalk)

\* C10: there is one binding per distinct label, and it is the binding of the
\* node that declares the label last in the walk.
C10_LastLabelWins ==
    Compiled =>
        /\ Cardinality(DOMAIN query.outputs) = Cardinality(DeclaredLabels)
        /\ \A l \in DeclaredLabels :
              LET last == CHOOSE k \in Declaring(l) : \A j \in Declaring(l) : j <= k
              IN  /\ l \in DOMAIN query.outputs
                  /\ query.outputs[l] =
                        [name |-> DocWalk[last].node.name, value_type |-> "String",
                         vid |-> DocWalk[last].parent + 1]

\* Two nodes of different names and parents declare the same label, and the
\* binding is the later one's.
C10_Witness ==
    /\ Compiled
    /\ \E l \in DeclaredLabels :
          \E j, k \in Declaring(l) :
             /\ j < k
             /\ DocWalk[j].node.name # DocWalk[k].node.name
             /\ DocWalk[j].parent # DocWalk[k].parent
             /\ query.outputs[l].name = DocWalk[k].node.name
             /\ Cardinality(DOMAIN query.outputs) < Cardinality({i \in 1..Len(DocWalk) : Declares(DocWalk[i].node)})

\* ------------------------------------------------------------ the adapter's claims
\* Mapping m holds the string `name` as a key.
HasKey(m, name) ==
    m.kind = "mapping" /\ \E i \in 1..Len(m.pairs) : m.pairs[i][1] = VString(name)

\* The value stored under key `name` of mapping m.
StoredUnder(m, name) ==
    m.pairs[CHOOSE i \in 1..Len(m.pairs) : m.pairs[i][1] = VString(name)][2]

RECURSIVE ExpectStrictProps(_, _)
\* What resolve_property yields if the kinds are taken as stored.
ExpectStrictProps(input, name) ==
    IF input = <<>> THEN <<>>
    ELSE LET c == Head(input)
         IN  (IF HasKey(c.active, name) /\ StoredUnder(c.active, name).kind = "string"
              THEN <<[ctx |-> c, value |-> StoredUnder(c.active, name).str]>>
              ELSE <<>>)
             \o ExpectStrictProps(Tail(input), name)

RECURSIVE ExpectBareProps(_, _)
\* What resolve_property yields if tag wrappers are looked through.
ExpectBareProps(input, name) ==
    IF input = <<>> THEN <<>>
    ELSE LET c == Head(input)
             m == untag_ref(c.active)
         IN  (IF HasKey(m, name) /\ untag_ref(StoredUnder(m, name)).kind = "string"
              THEN <<[ctx |-> c, value |-> untag_ref(StoredUnder(m, name)).str]>>
              ELSE <<>>)
             \o ExpectBareProps(Tail(input), name)

\* C4 as stated: a context yields (context, string) iff its active value is
\* of kind mapping, holds the property name and the value there is of kind
\* string; a tagged wrapper, like any other kind, yields nothing.
C4_StrictKinds ==
    call.method = "resolve_property" => outcome = ExpectStrictProps(call.input, call.name)

\* C4, amended: a context yields (context, string) iff its active value, with
\* any tag wrappers removed, is a mapping that holds the property name and the
\* value there, with any tag wrappers removed, is a string; otherwise the
\* context yields nothing.
C4_StringsOnly ==
    call.method = "resolve_property" => outcome = ExpectBareProps(call.input, call.name)

\* resolve_property was handed two contexts, one of which yields a string
\* that is stored behind a tag, while the other yields nothing.
C4_Witness ==
    /\ call.method = "resolve_property"
    /\ Len(call.input) = 2
    /\ Len(outcome) = 1
    /\ HasKey(outcome[1].ctx.active, call.name)
    /\ StoredUnder(outcome[1].ctx.active, call.name).kind = "tagged"

CtxIsSequence(c) == c.active.kind = "sequence"
OutcomeOfSequence(o) == o.ctx.active.kind = "sequence"

\* C5: under the edge name "*" every context whose active value is a sequence
\* yields that context with one child per element, in the order of the
\* sequence.
C5_WildcardInOrder ==
    (call.method = "resolve_neighbors" /\ call.name = "*") =>
        LET sel == SelectSeq(call.input, CtxIsSequence)
        IN  SelectSeq(outcome, OutcomeOfSequence)
              = [i \in 1..Len(sel) |-> [ctx |-> sel[i], neighbors |-> sel[i].active.items]]

\* resolve_neighbors was handed "*" and two contexts, one of them a sequence
\* of two different elements, and one of them an empty sequence or no sequence.
C5_Witness ==
    /\ call.method = "resolve_neighbors"
    /\ call.name = "*"
    /\ Len(call.input) = 2
    /\ \E i \in 1..Len(outcome) :
          /\ outcome[i].ctx.active.kind = "sequence"
          /\ Len(outcome[i].neighbors) = 2
          /\ outcome[i].neighbors[1] # outcome[i].neighbors[2]

\* The wildcard case does not apply to the context, the kinds taken as stored.
NotWildcardStrict(c) == call.name # "*" \/ c.active.kind # "sequence"
OutcomeNotWildcardStrict(o) == NotWildcardStrict(o.ctx)

\* The wildcard case does not apply to the context, tag wrappers looked through.
NotWildcardBare(c) == call.name # "*" \/ untag_ref(c.active).kind # "sequence"
OutcomeNotWildcardBare(o) == NotWildcardBare(o.ctx)

RECURSIVE ExpectStrictNeighbors(_, _)
ExpectStrictNeighbors(input, name) ==
    IF input = <<>> THEN <<>>
    ELSE LET c == Head(input)
         IN  (IF HasKey(c.active, name)
              THEN <<[ctx |-> c, neighbors |-> <<StoredUnder(c.active, name)>>]>>
              ELSE <<>>)
             \o ExpectStrictNeighbors(Tail(input), name)

RECURSIVE ExpectBareNeighbors(_, _)
ExpectBareNeighbors(input, name) ==
    IF input = <<>> THEN <<>>
    ELSE LET c == Head(input)
             m == untag_ref(c.active)
         IN  (IF HasKey(m, name)
              THEN <<[ctx |-> c, neighbors |-> <<StoredUnder(m, name)>>]>>
              ELSE <<>>)
             \o ExpectBareNeighbors(Tail(input), name)

\* C6 as stated: outside the wildcard case a context yields exactly one child,
\* the value stored under the edge name, when its active value is of kind
\* mapping and holds the edge name, and is absent from the output otherwise.
C6_StrictKinds ==
    call.method = "resolve_neighbors" =>
        SelectSeq(outcome, OutcomeNotWildcardStrict)
          = ExpectStrictNeighbors(SelectSeq(call.input, NotWildcardStrict), call.name)

\* C6, amended: outside the wildcard case (the edge name is not "*", or the
\* active value, with any tag wrappers removed, is not a sequence) a context
\* yields exactly one child, the value stored under the edge name, when its
\* active value, with any tag wrappers removed, is a mapping that holds the
\* edge name, and is absent from the output otherwise.
C6_OneChildOrAbsent ==
    call.method = "resolve_neighbors" =>
        SelectSeq(outcome, OutcomeNotWildcardBare)
          = ExpectBareNeighbors(SelectSeq(call.input, NotWildcardBare), call.name)

\* resolve_neighbors was handed a named edge and two contexts: a mapping
\* behind a tag, which yields its one child, and a context that is dropped.
C6_Witness ==
    /\ call.method = "resolve_neighbors"
    /\ call.name = "k"
    /\ Len(call.input) = 2
    /\ Len(outcome) = 1
    /\ outcome[1].ctx.active.kind = "tagged"
    /\ Len(outcome[1].neighbors) = 1

\* ------------------------------------------------------------ run's claims
\* The labels that a wildcard query binds.
LabelsOf(q) ==
    {<<"image">>}
    \cup (IF q \in {DeploymentQuery, NameImageQuery} THEN {<<"name">>} ELSE {})
    \cup (IF q = DeploymentQuery THEN {<<"role">>} ELSE {})

\* The row expected of query q for a server name and an image.
ExpectedRow(q, n, img) ==
    [l \in LabelsOf(q) |->
        IF l = <<"name">> THEN n ELSE IF l = <<"role">> THEN RoleString ELSE img]

\* C2: a query that binds fields along named edges and one field below a
\* single wildcard, run on a document whose K containers hold an image string
\* each, returns K rows in the order of the containers: the bindings outside
\* the wildcard are the same in every row, the k-th row holds the k-th image.
C2_OneRowPerElement ==
    (pc = "done" /\ raw_query.ok /\ yaml.ok) =>
        \A n \in ServerNames, cs \in ImageLists :
            yaml.v = DeploymentDoc(n, cs) =>
                /\ result.returned
                /\ result.rows =
                      [k \in 1..Len(cs) |-> ExpectedRow(raw_query.v, n, cs[k].pairs[1][2].str)]

\* The query of the test has returned its three rows, the images differing.
C2_Witness ==
    /\ pc = "done"
    /\ raw_query = Parsed(DeploymentQuery)
    /\ Len(result.rows) = 3
    /\ result.rows[1][<<"image">>] # result.rows[2][<<"image">>]
    /\ result.rows[1][<<"name">>] = result.rows[3][<<"name">>]
    /\ DOMAIN result.rows[1] = {<<"name">>, <<"role">>, <<"image">>}

\* C7: when either text fails to parse, nothing is compiled, the engine is
\* never started and no rows are returned.
C7_ParseFailureAborts ==
    (~raw_query.ok \/ ~yaml.ok) =>
        /\ query = NoQuery
        /\ contexts = <<>>
        /\ call = NoCall
        /\ ~result.returned
        /\ pc \in {"parse_query", "parse_yaml", "panicked"}

\* The query text parsed, the document text did not, and run has panicked.
C7_Witness ==
    /\ pc = "panicked"
    /\ raw_query.ok
    /\ ~yaml.ok
    /\ kdl_doc = raw_query.v

====
